---- MODULE Spec2Model ----
(***************************************************************************)
(* The textbook acquisition pipeline of Addis-pilot (src/App.tsx):         *)
(* fetchPdfWithCache and its helper fetchAndCache, run by a bounded number *)
(* of overlapping invocations against one shared Cache Storage and a       *)
(* network whose every request may fail.                                   *)
(*                                                                         *)
(* Abstractions.  A URL is a sequence of strings; a proxy URL is the       *)
(* proxy's prefix followed by the (encoded) canonical URL.  A Blob is      *)
(* represented by its size in bytes, so two blobs of the same size are the *)
(* same payload.  Every awaited platform promise (caches.open,             *)
(* cache.match, fetch / response.blob) is a step of its own that resolves  *)
(* or rejects; cache.put is not awaited by the code and therefore settles  *)
(* in a step of its own after the invocation has gone on.  The promise of   *)
(* cachedResponse.blob() is returned, not awaited: the invocation settles  *)
(* the way that promise does.                                              *)
(*                                                                         *)
(* Specifications.  Spec is the pipeline on its own, any caller starting   *)
(* invocations at any time on a cache that may already hold entries;       *)
(* SpecEmpty is Spec started on an empty cache; FairSpec is Spec with      *)
(* every awaited promise settling eventually; AppSpec is the application:  *)
(* selectSubject and the navigation handlers of App, selectSubject being   *)
(* the only caller of the pipeline; FairAppSpec is AppSpec with every      *)
(* awaited promise settling and every continuation of selectSubject run;   *)
(* StudySpec is a study session, from a document on the screen: the        *)
(* assistant (processAIResponse, voice input), the quiz and the navigation *)
(* buttons; ReaderSpec is the PDFReader component with the props App       *)
(* passes to it.                                                           *)
(***************************************************************************)
EXTENDS Integers, Sequences, FiniteSets, TLC

\* ---------------------------------------------------------------- bounds
\* Blob sizes range over MinPdfSize - 1 .. MinPdfSize + MaxOver.
MaxOver == 1
\* selectSubject is called at most MaxLoads times in one behaviour.
MaxLoads == 2
\* A quiz has at most MaxQuestions questions.
MaxQuestions == 2
\* At most MaxRequests requests to the AI service are in flight at a time.
MaxRequests == 2
\* A document has at most MaxPages pages.
MaxPages == 8

\* ------------------------------------------------------ program constants
\* if (blob.size < 5000) throw ...
MinPdfSize == 5000

SAMPLE_PDF_URL == <<"sample.pdf">>
PHY_11_URL == <<"phy11.pdf">>

\* The pdfUrl values of CURRICULUM: the only URLs the application passes in.
CURRICULUM == {PHY_11_URL, SAMPLE_PDF_URL}

\* const proxies = [ allorigins, corsproxy ]: each wraps the encoded URL.
proxies == << <<"https://api.allorigins.win/raw?url=">>, <<"https://corsproxy.io/?">> >>

\* Faulty variant of proxyGen: the proxy list in the opposite order.
proxyGenReversed(k, u) == proxies[Len(proxies) + 1 - k] \o u

\* proxyGen(u) of the k-th proxy: the prefix followed by encodeURIComponent(u).
proxyGen(k, u) == proxies[k] \o u

ProxyUrls == {proxyGen(k, u) : k \in 1..Len(proxies), u \in CURRICULUM}
AllUrls == CURRICULUM \cup ProxyUrls

\* The invocations of fetchPdfWithCache of one behaviour: two, so that an
\* invocation can overlap another one or follow it.
Calls == {1, 2}
BlobSizes == (MinPdfSize - 1)..(MinPdfSize + MaxOver)
NoEntry == -1

\* What one network request can settle to: fetch() or response.blob() rejects,
\* a response with !response.ok, or a response with ok status and a body.
Responses ==
  {[kind |-> "rejected", size |-> 0], [kind |-> "notOk", size |-> 0]}
    \cup {[kind |-> "ok", size |-> s] : s \in BlobSizes}
NoResponse == [kind |-> "none", size |-> 0]

\* CURRICULUM as the screens use it: the grades, grade.subjects and
\* subject.pdfUrl.  Physics of grade 11 has a textbook of its own; every other
\* subject (one per grade stands for them) points at SAMPLE_PDF_URL.
Grades == {"11", "12"}
subjects(g) == IF g = "11" THEN {"phy11", "math11"} ELSE {"math12"}
pdfUrl(s) == IF s = "phy11" THEN PHY_11_URL ELSE SAMPLE_PDF_URL
NoGrade == "null"
NoSubject == "null"
\* A File is represented by where its content came from and its size.
NoFile == [origin |-> "null", size |-> 0]
Files == {[origin |-> o, size |-> n] : o \in {"requested", "default", "upload"}, n \in BlobSizes}

VARIABLES
  cachesInWindow,  \* 'caches' in window
  cache,           \* the Cache Storage 'addis-pilot-textbooks-v1': URL -> blob
  pendingPuts,     \* cache.put calls issued and not yet settled
  pc,              \* where each invocation stands
  url,             \* its argument
  attempt,         \* 0 = direct fetch, k = k-th proxy of the list
  blob,            \* the blob in hand: fetchAndCache's validated blob, or the
                   \* body of the response cache.match produced
  result,          \* the blob the invocation resolved with
  lookup,          \* how step 1 (Try Cache) ended
  log,             \* the URLs passed to fetch(), in order
  lastResp,        \* what the latest settled request settled to
  puts,            \* the (key, blob) pairs this invocation passed to cache.put
  putOpenFailed,   \* caches.open rejected inside fetchAndCache
  storedAtReturn,  \* the cache held the result under url when it was returned
  rejectedPuts,    \* the invocations whose cache.put rejected
  cache0,          \* the cache before the first invocation
  atStart,         \* the entry under url when the invocation started
  returnedBefore,  \* the invocations that had returned a fetched payload for
                   \* the same url when this one started
  settled          \* how many of its fetch() requests have settled

\* The state of App that selectSubject and the navigation handlers use.
VARIABLES
  navStep,         \* 'GRADE_SELECT' | 'SUBJECT_SELECT' | 'VIEWING'
  selectedGrade,   \* the id of the grade, or NoGrade for null
  selectedSubject, \* the id of the subject, or NoSubject for null
  file,            \* the File shown by PDFReader, or NoFile for null
  isLoadingPdf,
  isFallbackMode,
  load,            \* where the latest call of selectSubject stands, or how it
                   \* ended
  loads            \* how many times selectSubject has been called

\* The state of App that the assistant and the quiz use.
VARIABLES
  isProcessing,
  quizActive,
  quizQuestions,   \* the questions of the quiz, each one its number of options
  quizAnswers,     \* per question the index of the option chosen, or -1
  requests,        \* per kind, the requests to the AI service in flight
  isListening,
  heardProcessing, \* isProcessing as the handlers of the SpeechRecognition
                   \* object see it: its value in the render whose effect
                   \* created the object
  sendTimer        \* the setTimeout of recognition.onresult is pending

\* The state of PDFReader, and the props App passes to it.
VARIABLES
  mounted,         \* App renders PDFReader (navStep === 'VIEWING')
  startPage,       \* the prop startPage, 1 when selectedSubject has none
  filePages,       \* the prop file, as the number of pages of the document
  documentLoaded,  \* <Document> has loaded the file it was given
  numPages,
  pageNumber

aiVars == <<isProcessing, quizQuestions, quizAnswers, requests, isListening,
            heardProcessing, sendTimer>>

readerVars == <<mounted, startPage, filePages, documentLoaded, numPages, pageNumber>>

navVars == <<navStep, selectedGrade, selectedSubject, file, isLoadingPdf,
             isFallbackMode, load, loads>>

appVars == <<navVars, quizActive, aiVars, readerVars>>

vars == <<cachesInWindow, cache, pendingPuts, pc, url, attempt, blob, result,
          lookup, log, lastResp, puts, putOpenFailed, storedAtReturn,
          rejectedPuts, cache0, atStart, returnedBefore, settled, appVars>>

callVars == <<pc, url, attempt, blob, result, lookup, log, lastResp, puts,
              putOpenFailed, storedAtReturn, atStart, returnedBefore, settled>>

\* The persistent cache as earlier sessions may have left it: entries only
\* under canonical URLs; the store is shared by the origin, so an entry's blob
\* is not known to have passed this version's validation.
InitialCaches ==
  {c \in [AllUrls -> BlobSizes \cup {NoEntry}] :
     \A k \in ProxyUrls : c[k] = NoEntry}

PipelineInit ==
  /\ cachesInWindow \in BOOLEAN
  /\ cache \in InitialCaches
  /\ (~cachesInWindow => \A k \in AllUrls : cache[k] = NoEntry)
  /\ pendingPuts = {}
  /\ pc = [i \in Calls |-> "idle"]
  /\ url = [i \in Calls |-> <<>>]
  /\ attempt = [i \in Calls |-> 0]
  /\ blob = [i \in Calls |-> NoEntry]
  /\ result = [i \in Calls |-> NoEntry]
  /\ lookup = [i \in Calls |-> "none"]
  /\ log = [i \in Calls |-> <<>>]
  /\ lastResp = [i \in Calls |-> NoResponse]
  /\ puts = [i \in Calls |-> {}]
  /\ putOpenFailed = [i \in Calls |-> FALSE]
  /\ storedAtReturn = [i \in Calls |-> FALSE]
  /\ rejectedPuts = {}
  /\ cache0 = cache
  /\ atStart = [i \in Calls |-> NoEntry]
  /\ returnedBefore = [i \in Calls |-> {}]
  /\ settled = [i \in Calls |-> 0]

\* The kinds of request to the AI service: generateExplanation called without
\* and with shouldSpeak, generateSpeech, generateQuiz.
AiKinds == {"explanation", "spokenExplanation", "speech", "quiz"}

\* function App(): the useState initial values.
AppStateInit ==
  /\ navStep = "GRADE_SELECT"
  /\ selectedGrade = NoGrade
  /\ selectedSubject = NoSubject
  /\ file = NoFile
  /\ isLoadingPdf = FALSE
  /\ isFallbackMode = FALSE
  /\ load = "none"
  /\ loads = 0
  /\ isProcessing = FALSE
  /\ quizActive = FALSE
  /\ quizQuestions = <<>>
  /\ quizAnswers = <<>>
  /\ requests = [k \in AiKinds |-> 0]
  /\ isListening = FALSE
  /\ heardProcessing = FALSE
  /\ sendTimer = FALSE

\* PDFReader is not rendered.
ReaderInit ==
  /\ mounted = FALSE
  /\ startPage = 1
  /\ filePages = 0
  /\ documentLoaded = FALSE
  /\ numPages = 0
  /\ pageNumber = 1

Init == PipelineInit /\ AppStateInit /\ ReaderInit

\* Faulty variant of fetchUrl: the first proxy is requested before the URL itself.
fetchUrlProxyFirst(a, u) ==
  IF a = 0 THEN proxyGen(1, u) ELSE IF a = 1 THEN u ELSE proxyGen(a, u)

\* The URL the attempt-th strategy fetches: the URL itself, then each proxy.
fetchUrl(a, u) == IF a = 0 THEN u ELSE proxyGen(a, u)

\* Faulty variant of IssueFetch: the request is raced against the one of the
\* next proxy instead of being awaited first.
IssueFetchRaced(i, a) ==
  /\ pc' = [pc EXCEPT ![i] = "fetch"]
  /\ attempt' = [attempt EXCEPT ![i] = a]
  /\ log' = [log EXCEPT ![i] =
               IF a < Len(proxies)
                 THEN Append(Append(@, fetchUrl(a, url[i])), fetchUrl(a + 1, url[i]))
                 ELSE Append(@, fetchUrl(a, url[i]))]

\* fetchAndCache(fetchUrl, cacheKey) up to its first await: fetch(fetchUrl).
IssueFetch(i, a) ==
  /\ pc' = [pc EXCEPT ![i] = "fetch"]
  /\ attempt' = [attempt EXCEPT ![i] = a]
  /\ log' = [log EXCEPT ![i] = Append(@, fetchUrl(a, url[i]))]

\* return blob: the invocation resolves with b.
Return(i, b) ==
  /\ pc' = [pc EXCEPT ![i] = "returned"]
  /\ result' = [result EXCEPT ![i] = b]
  /\ storedAtReturn' = [storedAtReturn EXCEPT ![i] = (cache[url[i]] = b)]

\* const fetchPdfWithCache = async (url) => { if ('caches' in window) ...
Start(i, u) ==
  /\ pc[i] = "idle"
  /\ \A j \in Calls : j < i => pc[j] # "idle"   \* numbered as they start
  /\ url' = [url EXCEPT ![i] = u]
  /\ atStart' = [atStart EXCEPT ![i] = cache[u]]
  /\ returnedBefore' = [returnedBefore EXCEPT ![i] =
        {j \in Calls : pc[j] = "returned" /\ url[j] = u /\ log[j] # <<>>}]
  /\ IF cachesInWindow
       THEN /\ pc' = [pc EXCEPT ![i] = "cacheOpen"]
            /\ UNCHANGED <<attempt, log, lookup>>
       ELSE /\ pc' = [pc EXCEPT ![i] = "fetch"]
            /\ attempt' = [attempt EXCEPT ![i] = 0]
            /\ log' = [log EXCEPT ![i] = Append(@, fetchUrl(0, u))]
            /\ lookup' = [lookup EXCEPT ![i] = "skipped"]
  /\ UNCHANGED <<cachesInWindow, cache, pendingPuts, blob, result, lastResp,
                 puts, putOpenFailed, storedAtReturn, rejectedPuts, cache0, settled>>

\* const cache = await caches.open(CACHE_NAME) resolves.
LookupOpened(i) ==
  /\ pc[i] = "cacheOpen"
  /\ pc' = [pc EXCEPT ![i] = "cacheMatch"]
  /\ UNCHANGED <<cachesInWindow, cache, pendingPuts, url, attempt, blob,
                 result, lookup, log, lastResp, puts, putOpenFailed,
                 storedAtReturn, rejectedPuts, cache0, settled, atStart, returnedBefore>>

\* caches.open or cache.match rejects: catch (e) { console.warn(...) }, and
\* the direct fetch follows.
LookupFailed(i) ==
  /\ pc[i] \in {"cacheOpen", "cacheMatch"}
  /\ lookup' = [lookup EXCEPT ![i] = "error"]
  /\ IssueFetch(i, 0)
  /\ UNCHANGED <<cachesInWindow, cache, pendingPuts, url, blob, result,
                 lastResp, puts, putOpenFailed, storedAtReturn, rejectedPuts,
                 cache0, settled, atStart, returnedBefore>>

\* Faulty variant of LookupMatched: a cached entry is used only if it passes the size
\* validation.
LookupMatchedValidates(i) ==
  /\ pc[i] = "cacheMatch"
  /\ IF cache[url[i]] # NoEntry /\ cache[url[i]] >= MinPdfSize
       THEN /\ lookup' = [lookup EXCEPT ![i] = "hit"]
            /\ pc' = [pc EXCEPT ![i] = "cacheBody"]
            /\ blob' = [blob EXCEPT ![i] = cache[url[i]]]
            /\ UNCHANGED <<attempt, log>>
       ELSE /\ lookup' = [lookup EXCEPT ![i] = "miss"]
            /\ IssueFetch(i, 0)
            /\ UNCHANGED blob
  /\ UNCHANGED <<cachesInWindow, cache, pendingPuts, url, result, lastResp,
                 puts, putOpenFailed, storedAtReturn, rejectedPuts, cache0, settled,
                 atStart, returnedBefore>>

\* const cachedResponse = await cache.match(url) resolves:
\* if (cachedResponse) return cachedResponse.blob(), the body of the matched
\* response being read from then on; otherwise the direct fetch.
LookupMatched(i) ==
  /\ pc[i] = "cacheMatch"
  /\ IF cache[url[i]] # NoEntry
       THEN /\ lookup' = [lookup EXCEPT ![i] = "hit"]
            /\ pc' = [pc EXCEPT ![i] = "cacheBody"]
            /\ blob' = [blob EXCEPT ![i] = cache[url[i]]]
            /\ UNCHANGED <<attempt, log>>
       ELSE /\ lookup' = [lookup EXCEPT ![i] = "miss"]
            /\ IssueFetch(i, 0)
            /\ UNCHANGED blob
  /\ UNCHANGED <<cachesInWindow, cache, pendingPuts, url, result, lastResp,
                 puts, putOpenFailed, storedAtReturn, rejectedPuts, cache0, settled,
                 atStart, returnedBefore>>

\* Faulty variant of Accepted: the size check is missing.
AcceptedAnySize(r) == r.kind = "ok"

\* The promise of cachedResponse.blob() resolves: so does the invocation.
CachedBodyRead(i) ==
  /\ pc[i] = "cacheBody"
  /\ Return(i, blob[i])
  /\ UNCHANGED <<cachesInWindow, cache, pendingPuts, url, attempt, blob,
                 lookup, log, lastResp, puts, putOpenFailed, rejectedPuts,
                 cache0, settled, atStart, returnedBefore>>

\* The promise of cachedResponse.blob() rejects.  It was returned without
\* await, so the catch around the lookup does not run and the invocation
\* rejects with the read error.
CachedBodyReadFailed(i) ==
  /\ pc[i] = "cacheBody"
  /\ pc' = [pc EXCEPT ![i] = "failed"]
  /\ UNCHANGED <<cachesInWindow, cache, pendingPuts, url, attempt, blob,
                 result, lookup, log, lastResp, puts, putOpenFailed,
                 storedAtReturn, rejectedPuts, cache0, settled, atStart, returnedBefore>>

\* Faulty variant of Accepted: the comparison is off by one, a body one byte
\* under the threshold passes.
AcceptedOffByOne(r) == r.kind = "ok" /\ r.size >= MinPdfSize - 1

\* fetchAndCache's checks: !response.ok throws, blob.size < 5000 throws; a
\* rejected fetch() or response.blob() throws as well.
Accepted(r) == r.kind = "ok" /\ r.size >= MinPdfSize

\* Faulty variant of AfterThrow: the final throw is missing, the invocation resolves
\* with nothing after the last proxy.
AfterThrowNoFinalThrow(i) ==
  IF attempt[i] < Len(proxies)
    THEN IssueFetch(i, attempt[i] + 1)
    ELSE /\ pc' = [pc EXCEPT ![i] = "returned"]
         /\ UNCHANGED <<attempt, log>>

\* Faulty variant of AfterThrow: after the last proxy the strategies are tried
\* again from the direct request.
AfterThrowRetries(i) ==
  IF attempt[i] < Len(proxies)
    THEN IssueFetch(i, attempt[i] + 1)
    ELSE IssueFetch(i, 0)

\* fetchAndCache threw in attempt a: the catch of the direct attempt enters the
\* proxy loop, the catch inside the loop goes on to the next proxy, and after
\* the last one: throw new Error("All network and proxy attempts failed.").
AfterThrow(i) ==
  IF attempt[i] < Len(proxies)
    THEN IssueFetch(i, attempt[i] + 1)
    ELSE /\ pc' = [pc EXCEPT ![i] = "failed"]
         /\ UNCHANGED <<attempt, log>>

\* Faulty variant of FetchSettled: the body of every response with success
\* status is put in the cache before its size is checked.
FetchSettledCachesFirst(i, r) ==
  /\ pc[i] = "fetch"
  /\ lastResp' = [lastResp EXCEPT ![i] = r]
  /\ settled' = [settled EXCEPT ![i] = @ + 1]
  /\ IF r.kind = "ok" /\ cachesInWindow
       THEN /\ pendingPuts' = pendingPuts \cup {[by |-> i, key |-> url[i], blob |-> r.size]}
            /\ puts' = [puts EXCEPT ![i] = @ \cup {<<url[i], r.size>>}]
       ELSE UNCHANGED <<pendingPuts, puts>>
  /\ IF r.kind = "ok" /\ r.size >= MinPdfSize
       THEN /\ blob' = [blob EXCEPT ![i] = r.size]
            /\ Return(i, r.size)
            /\ UNCHANGED <<attempt, log>>
       ELSE /\ IF attempt[i] < Len(proxies)
                 THEN /\ pc' = [pc EXCEPT ![i] = "fetch"]
                      /\ attempt' = [attempt EXCEPT ![i] = @ + 1]
                      /\ log' = [log EXCEPT ![i] = Append(@, proxies[attempt[i] + 1] \o url[i])]
                 ELSE /\ pc' = [pc EXCEPT ![i] = "failed"]
                      /\ UNCHANGED <<attempt, log>>
            /\ UNCHANGED <<blob, result, storedAtReturn>>
  /\ UNCHANGED <<cachesInWindow, cache, url, lookup, putOpenFailed, rejectedPuts,
                 cache0, atStart, returnedBefore>>

\* The request of the current attempt settles to r.
FetchSettled(i, r) ==
  /\ pc[i] = "fetch"
  /\ lastResp' = [lastResp EXCEPT ![i] = r]
  /\ settled' = [settled EXCEPT ![i] = @ + 1]
  /\ IF Accepted(r)
       THEN /\ blob' = [blob EXCEPT ![i] = r.size]
            /\ IF cachesInWindow
                 THEN /\ pc' = [pc EXCEPT ![i] = "putOpen"]
                      /\ UNCHANGED <<result, storedAtReturn>>
                 ELSE Return(i, r.size)
            /\ UNCHANGED <<attempt, log>>
       ELSE /\ AfterThrow(i)
            /\ UNCHANGED <<blob, result, storedAtReturn>>
  /\ UNCHANGED <<cachesInWindow, cache, pendingPuts, url, lookup, puts,
                 putOpenFailed, rejectedPuts, cache0, atStart, returnedBefore>>

\* Faulty variant of cacheKey: the entry is stored under the URL that was fetched.
cacheKeyFetched(i) == fetchUrl(attempt[i], url[i])

\* The key fetchAndCache stores under: its cacheKey argument, always url.
cacheKey(i) == url[i]

\* await caches.open(CACHE_NAME) resolves inside fetchAndCache:
\* cache.put(cacheKey, new Response(blob)) is called and not awaited; return blob.
PutOpened(i) ==
  /\ pc[i] = "putOpen"
  /\ pendingPuts' = pendingPuts \cup {[by |-> i, key |-> cacheKey(i), blob |-> blob[i]]}
  /\ puts' = [puts EXCEPT ![i] = @ \cup {<<cacheKey(i), blob[i]>>}]
  /\ Return(i, blob[i])
  /\ UNCHANGED <<cachesInWindow, cache, url, attempt, blob, lookup, log,
                 lastResp, putOpenFailed, rejectedPuts, cache0, settled, atStart,
                 returnedBefore>>

\* Faulty variant of PutOpenFailed: the open is not inside a try, its rejection makes
\* fetchAndCache throw and the next strategy follows.
PutOpenFailedThrows(i) ==
  /\ pc[i] = "putOpen"
  /\ putOpenFailed' = [putOpenFailed EXCEPT ![i] = TRUE]
  /\ AfterThrow(i)
  /\ UNCHANGED <<cachesInWindow, cache, pendingPuts, url, blob, result,
                 lookup, lastResp, puts, storedAtReturn, rejectedPuts, cache0, settled,
                 atStart, returnedBefore>>

\* await caches.open(CACHE_NAME) rejects inside fetchAndCache:
\* catch (e) { console.warn("Cache put failed", e); } return blob.
PutOpenFailed(i) ==
  /\ pc[i] = "putOpen"
  /\ putOpenFailed' = [putOpenFailed EXCEPT ![i] = TRUE]
  /\ Return(i, blob[i])
  /\ UNCHANGED <<cachesInWindow, cache, pendingPuts, url, attempt, blob,
                 lookup, log, lastResp, puts, rejectedPuts, cache0, settled, atStart,
                 returnedBefore>>

\* Faulty variant of PutLanded: an entry that exists is not replaced (the
\* first write wins).
PutLandedKeepsFirst(p) ==
  /\ p \in pendingPuts
  /\ cache' = IF cache[p.key] = NoEntry THEN [cache EXCEPT ![p.key] = p.blob] ELSE cache
  /\ pendingPuts' = pendingPuts \ {p}
  /\ UNCHANGED <<cachesInWindow, callVars, rejectedPuts, cache0>>

\* A cache.put settles: the entry under its key now holds its blob.
PutLanded(p) ==
  /\ p \in pendingPuts
  /\ cache' = [cache EXCEPT ![p.key] = p.blob]
  /\ pendingPuts' = pendingPuts \ {p}
  /\ UNCHANGED <<cachesInWindow, callVars, rejectedPuts, cache0>>

\* Faulty variant of PutRejected: a put that fails takes the entry under its
\* key with it.
PutRejectedEvicts(p) ==
  /\ p \in pendingPuts
  /\ pendingPuts' = pendingPuts \ {p}
  /\ rejectedPuts' = rejectedPuts \cup ({p.by} \cap Calls)
  /\ cache' = [cache EXCEPT ![p.key] = NoEntry]
  /\ UNCHANGED <<cachesInWindow, callVars, cache0>>

\* A cache.put rejects (quota, storage error): nobody awaits it, nothing changes.
PutRejected(p) ==
  /\ p \in pendingPuts
  /\ pendingPuts' = pendingPuts \ {p}
  /\ rejectedPuts' = rejectedPuts \cup ({p.by} \cap Calls)
  /\ UNCHANGED <<cachesInWindow, cache, callVars, cache0>>

\* The pipeline on its own: any caller may start an invocation at any time.
Next ==
  \/ \E i \in Calls, u \in CURRICULUM : Start(i, u) /\ UNCHANGED appVars
  \/ \E i \in Calls : LookupOpened(i) /\ UNCHANGED appVars
  \/ \E i \in Calls : LookupFailed(i) /\ UNCHANGED appVars
  \/ \E i \in Calls : LookupMatched(i) /\ UNCHANGED appVars
  \/ \E i \in Calls : CachedBodyRead(i) /\ UNCHANGED appVars
  \/ \E i \in Calls : CachedBodyReadFailed(i) /\ UNCHANGED appVars
  \/ \E i \in Calls, r \in Responses : FetchSettled(i, r) /\ UNCHANGED appVars
  \/ \E i \in Calls : PutOpened(i) /\ UNCHANGED appVars
  \/ \E i \in Calls : PutOpenFailed(i) /\ UNCHANGED appVars
  \/ \E p \in pendingPuts : PutLanded(p) /\ UNCHANGED appVars
  \/ \E p \in pendingPuts : PutRejected(p) /\ UNCHANGED appVars

Spec == Init /\ [][Next]_vars

\* The pipeline started on a cache that holds nothing.
InitEmpty == Init /\ \A k \in AllUrls : cache[k] = NoEntry

SpecEmpty == InitEmpty /\ [][Next]_vars

TypeOK ==
  /\ cachesInWindow \in BOOLEAN
  /\ cache \in [AllUrls -> BlobSizes \cup {NoEntry}]
  /\ pc \in [Calls -> {"idle", "cacheOpen", "cacheMatch", "cacheBody", "fetch", "putOpen",
                       "returned", "failed"}]
  /\ attempt \in [Calls -> 0..Len(proxies)]
  /\ lookup \in [Calls -> {"none", "skipped", "error", "miss", "hit"}]

\* ------------------------------------------------ the document-selection flow
\* selectSubject and the navigation handlers of App.  selectSubject awaits
\* fetchPdfWithCache: its first invocation is invocation 1, the one for the
\* default document is invocation 2.  The state updates a handler makes between
\* two awaits are one step.  AppMode is left out: in PRINCIPAL mode the student
\* screens are hidden and only resetToGradeSelect brings them back.

storeVars == <<cachesInWindow, cache, cache0>>

\* selectSubject has returned: the promises of its invocations are dropped.
\* A cache.put of theirs that is still pending stays pending, as the put of an
\* invocation that is over (by = 0).
ForgetCalls ==
  /\ pendingPuts' = {[p EXCEPT !.by = 0] : p \in pendingPuts}
  /\ rejectedPuts' = {}
  /\ pc' = [i \in Calls |-> "idle"]
  /\ url' = [i \in Calls |-> <<>>]
  /\ attempt' = [i \in Calls |-> 0]
  /\ blob' = [i \in Calls |-> NoEntry]
  /\ result' = [i \in Calls |-> NoEntry]
  /\ lookup' = [i \in Calls |-> "none"]
  /\ log' = [i \in Calls |-> <<>>]
  /\ lastResp' = [i \in Calls |-> NoResponse]
  /\ puts' = [i \in Calls |-> {}]
  /\ putOpenFailed' = [i \in Calls |-> FALSE]
  /\ storedAtReturn' = [i \in Calls |-> FALSE]
  /\ atStart' = [i \in Calls |-> NoEntry]
  /\ returnedBefore' = [i \in Calls |-> {}]
  /\ settled' = [i \in Calls |-> 0]

\* const selectGrade = (grade) => ...; the grade buttons are rendered while
\* navStep === 'GRADE_SELECT'.
selectGrade(g) ==
  /\ navStep = "GRADE_SELECT"
  /\ selectedGrade' = g
  /\ navStep' = "SUBJECT_SELECT"
  /\ UNCHANGED <<selectedSubject, file, isLoadingPdf, isFallbackMode, load, loads>>
  /\ UNCHANGED <<storeVars, pendingPuts, rejectedPuts, callVars>>
  /\ UNCHANGED <<quizActive, aiVars, readerVars>>

\* selectSubject(subject) up to its first await.  The subject buttons are
\* rendered while navStep === 'SUBJECT_SELECT' && selectedGrade, and replaced
\* by the spinner while isLoadingPdf.
SubjectButtonsOffered ==
  navStep = "SUBJECT_SELECT" /\ selectedGrade # NoGrade /\ ~isLoadingPdf

selectSubject(s) ==
  /\ navStep = "SUBJECT_SELECT"
  /\ selectedGrade # NoGrade
  /\ ~isLoadingPdf
  /\ s \in subjects(selectedGrade)
  /\ loads < MaxLoads
  /\ loads' = loads + 1
  /\ selectedSubject' = s
  /\ isLoadingPdf' = TRUE
  /\ isFallbackMode' = FALSE
  /\ load' = "primary"
  /\ Start(1, pdfUrl(s))
  /\ UNCHANGED <<navStep, selectedGrade, file>>
  /\ UNCHANGED <<quizActive, aiVars, readerVars>>

\* Faulty variant of selectSubjectLoaded: setFile(pdfFile) is missing.
selectSubjectLoadedNoFile ==
  /\ load = "primary"
  /\ pc[1] = "returned"
  /\ navStep' = "VIEWING"
  /\ isLoadingPdf' = FALSE
  /\ load' = "loaded"
  /\ ForgetCalls
  /\ UNCHANGED <<selectedGrade, selectedSubject, file, isFallbackMode, loads>>
  /\ UNCHANGED storeVars
  /\ UNCHANGED <<quizActive, aiVars, readerVars>>

\* await fetchPdfWithCache(subject.pdfUrl) resolves: setFile(pdfFile);
\* setNavStep('VIEWING'); finally setIsLoadingPdf(false).
selectSubjectLoaded ==
  /\ load = "primary"
  /\ pc[1] = "returned"
  /\ file' = [origin |-> "requested", size |-> result[1]]
  /\ navStep' = "VIEWING"
  /\ isLoadingPdf' = FALSE
  /\ load' = "loaded"
  /\ ForgetCalls
  /\ UNCHANGED <<selectedGrade, selectedSubject, isFallbackMode, loads>>
  /\ UNCHANGED storeVars
  /\ UNCHANGED <<quizActive, aiVars, readerVars>>

\* Faulty variant of selectSubjectCatch: setIsLoadingPdf(false) runs when the
\* first acquisition fails, before the default document is asked for.
selectSubjectCatchStopsSpinner ==
  /\ load = "primary"
  /\ pc[1] = "failed"
  /\ load' = "fallback"
  /\ isLoadingPdf' = FALSE
  /\ Start(2, SAMPLE_PDF_URL)
  /\ UNCHANGED <<navStep, selectedGrade, selectedSubject, file, isFallbackMode, loads>>
  /\ UNCHANGED <<quizActive, aiVars, readerVars>>

\* await fetchPdfWithCache(subject.pdfUrl) rejects: catch (e), and
\* fetchPdfWithCache(SAMPLE_PDF_URL) is called.
selectSubjectCatch ==
  /\ load = "primary"
  /\ pc[1] = "failed"
  /\ load' = "fallback"
  /\ Start(2, SAMPLE_PDF_URL)
  /\ UNCHANGED <<navStep, selectedGrade, selectedSubject, file, isLoadingPdf,
                 isFallbackMode, loads>>
  /\ UNCHANGED <<quizActive, aiVars, readerVars>>

\* Faulty variant of selectSubjectFallbackLoaded: setIsFallbackMode(true) is
\* missing.
selectSubjectFallbackLoadedNoFlag ==
  /\ load = "fallback"
  /\ pc[2] = "returned"
  /\ file' = [origin |-> "default", size |-> result[2]]
  /\ navStep' = "VIEWING"
  /\ isLoadingPdf' = FALSE
  /\ load' = "substituted"
  /\ ForgetCalls
  /\ UNCHANGED <<selectedGrade, selectedSubject, isFallbackMode, loads>>
  /\ UNCHANGED storeVars
  /\ UNCHANGED <<quizActive, aiVars, readerVars>>

\* await fetchPdfWithCache(SAMPLE_PDF_URL) resolves: setFile(fallbackFile);
\* setIsFallbackMode(true); setNavStep('VIEWING'); finally
\* setIsLoadingPdf(false).
selectSubjectFallbackLoaded ==
  /\ load = "fallback"
  /\ pc[2] = "returned"
  /\ file' = [origin |-> "default", size |-> result[2]]
  /\ isFallbackMode' = TRUE
  /\ navStep' = "VIEWING"
  /\ isLoadingPdf' = FALSE
  /\ load' = "substituted"
  /\ ForgetCalls
  /\ UNCHANGED <<selectedGrade, selectedSubject, loads>>
  /\ UNCHANGED storeVars
  /\ UNCHANGED <<quizActive, aiVars, readerVars>>

\* Faulty variant of selectSubjectFallbackFailed: setIsLoadingPdf(false) is not
\* in a finally block, and the alert path returns without it.
selectSubjectFallbackFailedKeepsSpinner ==
  /\ load = "fallback"
  /\ pc[2] = "failed"
  /\ load' = "alerted"
  /\ ForgetCalls
  /\ UNCHANGED <<navStep, selectedGrade, selectedSubject, file, isLoadingPdf,
                 isFallbackMode, loads>>
  /\ UNCHANGED storeVars
  /\ UNCHANGED <<quizActive, aiVars, readerVars>>

\* await fetchPdfWithCache(SAMPLE_PDF_URL) rejects: catch (fallbackError),
\* alert("Critial Error: ..."); finally setIsLoadingPdf(false).
selectSubjectFallbackFailed ==
  /\ load = "fallback"
  /\ pc[2] = "failed"
  /\ isLoadingPdf' = FALSE
  /\ load' = "alerted"
  /\ ForgetCalls
  /\ UNCHANGED <<navStep, selectedGrade, selectedSubject, file, isFallbackMode, loads>>
  /\ UNCHANGED storeVars
  /\ UNCHANGED <<quizActive, aiVars, readerVars>>

\* Faulty variant of handleFileUpload: setIsFallbackMode(false) is missing.
handleFileUploadKeepsFlag(n) ==
  /\ navStep = "VIEWING"
  /\ file' = [origin |-> "upload", size |-> n]
  /\ navStep' = "VIEWING"
  /\ selectedSubject' = NoSubject
  /\ UNCHANGED <<selectedGrade, isLoadingPdf, isFallbackMode, load, loads>>
  /\ UNCHANGED <<storeVars, pendingPuts, rejectedPuts, callVars>>
  /\ UNCHANGED <<quizActive, aiVars, readerVars>>

\* handleFileUpload with a file of n bytes chosen; the upload control is
\* rendered while navStep === 'VIEWING'.
handleFileUpload(n) ==
  /\ navStep = "VIEWING"
  /\ file' = [origin |-> "upload", size |-> n]
  /\ navStep' = "VIEWING"
  /\ isFallbackMode' = FALSE
  /\ selectedSubject' = NoSubject
  /\ UNCHANGED <<selectedGrade, isLoadingPdf, load, loads>>
  /\ UNCHANGED <<storeVars, pendingPuts, rejectedPuts, callVars>>
  /\ UNCHANGED <<quizActive, aiVars, readerVars>>

\* Faulty variant of goBack: leaving the viewer also clears selectedSubject,
\* as resetToGradeSelect does.
goBackClearsSubject ==
  /\ navStep # "GRADE_SELECT"
  /\ IF navStep = "VIEWING"
       THEN /\ navStep' = "SUBJECT_SELECT"
            /\ file' = NoFile
            /\ quizActive' = FALSE
            /\ selectedSubject' = NoSubject
            /\ UNCHANGED selectedGrade
       ELSE /\ navStep' = "GRADE_SELECT"
            /\ selectedGrade' = NoGrade
            /\ UNCHANGED <<file, quizActive, selectedSubject>>
  /\ UNCHANGED <<isLoadingPdf, isFallbackMode, load, loads>>
  /\ UNCHANGED <<aiVars, readerVars>>
  /\ UNCHANGED <<storeVars, pendingPuts, rejectedPuts, callVars>>

\* goBack; its button is rendered while navStep !== 'GRADE_SELECT'.
goBack ==
  /\ navStep # "GRADE_SELECT"
  /\ IF navStep = "VIEWING"
       THEN /\ navStep' = "SUBJECT_SELECT"
            /\ file' = NoFile
            /\ quizActive' = FALSE
            /\ UNCHANGED selectedGrade
       ELSE /\ navStep' = "GRADE_SELECT"
            /\ selectedGrade' = NoGrade
            /\ UNCHANGED <<file, quizActive>>
  /\ UNCHANGED <<selectedSubject, isLoadingPdf, isFallbackMode, load, loads>>
  /\ UNCHANGED <<aiVars, readerVars>>
  /\ UNCHANGED <<storeVars, pendingPuts, rejectedPuts, callVars>>

\* resetToGradeSelect, on the button of the side bar.
resetToGradeSelect ==
  /\ navStep' = "GRADE_SELECT"
  /\ selectedGrade' = NoGrade
  /\ selectedSubject' = NoSubject
  /\ file' = NoFile
  /\ quizActive' = FALSE
  /\ UNCHANGED <<isLoadingPdf, isFallbackMode, load, loads>>
  /\ UNCHANGED <<aiVars, readerVars>>
  /\ UNCHANGED <<storeVars, pendingPuts, rejectedPuts, callVars>>

\* The application: invocations are started by selectSubject only.
AppNext ==
  \/ \E g \in Grades : selectGrade(g)
  \/ \E s \in subjects("11") \cup subjects("12") : selectSubject(s)
  \/ selectSubjectLoaded
  \/ selectSubjectCatch
  \/ selectSubjectFallbackLoaded
  \/ selectSubjectFallbackFailed
  \/ \E n \in BlobSizes : handleFileUpload(n)
  \/ goBack
  \/ resetToGradeSelect
  \/ \E i \in Calls : LookupOpened(i) /\ UNCHANGED appVars
  \/ \E i \in Calls : LookupFailed(i) /\ UNCHANGED appVars
  \/ \E i \in Calls : LookupMatched(i) /\ UNCHANGED appVars
  \/ \E i \in Calls : CachedBodyRead(i) /\ UNCHANGED appVars
  \/ \E i \in Calls : CachedBodyReadFailed(i) /\ UNCHANGED appVars
  \/ \E i \in Calls, r \in Responses : FetchSettled(i, r) /\ UNCHANGED appVars
  \/ \E i \in Calls : PutOpened(i) /\ UNCHANGED appVars
  \/ \E i \in Calls : PutOpenFailed(i) /\ UNCHANGED appVars
  \/ \E p \in pendingPuts : PutLanded(p) /\ UNCHANGED appVars
  \/ \E p \in pendingPuts : PutRejected(p) /\ UNCHANGED appVars

\* The application opened for the first time: nothing is cached yet.
AppInit == InitEmpty

AppSpec == AppInit /\ [][AppNext]_vars

AppTypeOK ==
  /\ navStep \in {"GRADE_SELECT", "SUBJECT_SELECT", "VIEWING"}
  /\ selectedGrade \in Grades \cup {NoGrade}
  /\ selectedSubject \in subjects("11") \cup subjects("12") \cup {NoSubject}
  /\ file \in Files \cup {NoFile}
  /\ isLoadingPdf \in BOOLEAN
  /\ isFallbackMode \in BOOLEAN
  /\ load \in {"none", "primary", "fallback", "loaded", "substituted", "alerted"}
  /\ loads \in 0..MaxLoads

\* ------------------------------------------------- the assistant and the quiz
\* processAIResponse, handleQuiz and their callers, and the quiz panel.  A
\* request to the AI service is in flight from the call of generateExplanation,
\* generateSpeech or generateQuiz to the step where its promise settles.  A
\* handler rendered by App reads the state of the latest render; the handlers
\* of the SpeechRecognition object are those of the render whose effect created
\* the object (the effect depends on language only), so they read isProcessing
\* as it was then: heardProcessing.  chatHistory, inputMessage and isSpeaking
\* are not represented.

RequestsInFlight ==
  requests["explanation"] + requests["spokenExplanation"]
    + requests["speech"] + requests["quiz"]

\* The request this step issues, if the limit of the model allows one more.
Issue(kind) ==
  /\ RequestsInFlight < MaxRequests
  /\ requests' = [requests EXCEPT ![kind] = @ + 1]

\* The promise of a request of this kind settles.
Settled(kind) ==
  /\ requests[kind] > 0
  /\ requests' = [requests EXCEPT ![kind] = @ - 1]

\* processAIResponse(text, context, shouldSpeak) up to its first await, in a
\* closure where isProcessing reads as 'seen'.
processAIResponse(seen, shouldSpeak) ==
  /\ IF seen
       THEN UNCHANGED <<isProcessing, requests>>
       ELSE /\ isProcessing' = TRUE
            /\ Issue(IF shouldSpeak THEN "spokenExplanation" ELSE "explanation")
  /\ UNCHANGED <<quizActive, quizQuestions, quizAnswers>>

\* sendMessage(text) from the text input (Enter, the send button, or the Ask
\* Taytu button with a text typed); the input is disabled while isListening.
sendMessage ==
  /\ ~isListening
  /\ processAIResponse(isProcessing, TRUE)
  /\ UNCHANGED <<isListening, heardProcessing, sendTimer>>
  /\ UNCHANGED <<navVars, readerVars>>

\* handleExplain(text), the Explain button of PDFReader's selection menu.
handleExplain ==
  /\ navStep = "VIEWING"
  /\ processAIResponse(isProcessing, FALSE)
  /\ UNCHANGED <<isListening, heardProcessing, sendTimer>>
  /\ UNCHANGED <<navVars, readerVars>>

\* await generateExplanation(...) resolves: with shouldSpeak, generateSpeech is
\* called; without, finally setIsProcessing(false).
explanationResolved(shouldSpeak) ==
  /\ IF shouldSpeak
       THEN /\ requests["spokenExplanation"] > 0
            /\ requests' = [requests EXCEPT !["spokenExplanation"] = @ - 1,
                                            !["speech"] = @ + 1]
            /\ UNCHANGED isProcessing
       ELSE /\ Settled("explanation")
            /\ isProcessing' = FALSE
  /\ UNCHANGED <<quizActive, quizQuestions, quizAnswers>>
  /\ UNCHANGED <<isListening, heardProcessing, sendTimer>>
  /\ UNCHANGED <<navVars, readerVars>>

\* await generateExplanation(...) rejects: catch (err); finally
\* setIsProcessing(false).
explanationRejected(shouldSpeak) ==
  /\ Settled(IF shouldSpeak THEN "spokenExplanation" ELSE "explanation")
  /\ isProcessing' = FALSE
  /\ UNCHANGED <<quizActive, quizQuestions, quizAnswers>>
  /\ UNCHANGED <<isListening, heardProcessing, sendTimer>>
  /\ UNCHANGED <<navVars, readerVars>>

\* await generateSpeech(explanation) settles, playAudio has started the sound
\* or not; finally setIsProcessing(false).
speechSettled ==
  /\ Settled("speech")
  /\ isProcessing' = FALSE
  /\ UNCHANGED <<quizActive, quizQuestions, quizAnswers>>
  /\ UNCHANGED <<isListening, heardProcessing, sendTimer>>
  /\ UNCHANGED <<navVars, readerVars>>

\* handleQuiz(text) up to its await; PDFReader offers it on a selection and
\* under the last page.
handleQuiz ==
  /\ navStep = "VIEWING"
  /\ IF isProcessing
       THEN UNCHANGED <<isProcessing, quizActive, quizQuestions, quizAnswers, requests>>
       ELSE /\ isProcessing' = TRUE
            /\ quizActive' = TRUE
            /\ quizQuestions' = <<>>
            /\ quizAnswers' = <<>>
            /\ Issue("quiz")
  /\ UNCHANGED <<isListening, heardProcessing, sendTimer>>
  /\ UNCHANGED <<navVars, readerVars>>

\* The questions generateQuiz resolves with: n questions of two options each.
Questions(n) == [k \in 1..n |-> 2]

\* new Array(n).fill(-1)
Unanswered(n) == [k \in 1..n |-> -1]

\* await generateQuiz(text, language) resolves with n questions:
\* setQuizQuestions(questions); setQuizAnswers(new Array(n).fill(-1)); finally
\* setIsProcessing(false).
quizResolved(n) ==
  /\ Settled("quiz")
  /\ quizQuestions' = Questions(n)
  /\ quizAnswers' = Unanswered(n)
  /\ isProcessing' = FALSE
  /\ UNCHANGED quizActive
  /\ UNCHANGED <<isListening, heardProcessing, sendTimer>>
  /\ UNCHANGED <<navVars, readerVars>>

\* await generateQuiz(text, language) rejects: setQuizActive(false); finally
\* setIsProcessing(false).
quizRejected ==
  /\ Settled("quiz")
  /\ quizActive' = FALSE
  /\ isProcessing' = FALSE
  /\ UNCHANGED <<quizQuestions, quizAnswers>>
  /\ UNCHANGED <<isListening, heardProcessing, sendTimer>>
  /\ UNCHANGED <<navVars, readerVars>>

\* Faulty variant of submitQuizAnswer: the option buttons are not disabled once
\* the question is answered.
submitQuizAnswerAgain(q, o) ==
  /\ navStep = "VIEWING"
  /\ q \in 1..Len(quizQuestions)
  /\ o \in 0..(quizQuestions[q] - 1)
  /\ q \in 1..Len(quizAnswers)
  /\ quizAnswers' = [quizAnswers EXCEPT ![q] = o]
  /\ UNCHANGED <<isProcessing, quizActive, quizQuestions, requests>>
  /\ UNCHANGED <<isListening, heardProcessing, sendTimer>>
  /\ UNCHANGED <<navVars, readerVars>>

\* submitQuizAnswer(qIndex, optionIndex), q = qIndex + 1: the button of option
\* o of question q, rendered in the viewer for every option of every question
\* and disabled unless quizAnswers[qIndex] is -1.
submitQuizAnswer(q, o) ==
  /\ navStep = "VIEWING"
  /\ q \in 1..Len(quizQuestions)
  /\ o \in 0..(quizQuestions[q] - 1)
  /\ q \in 1..Len(quizAnswers) /\ quizAnswers[q] = -1
  /\ quizAnswers' = [quizAnswers EXCEPT ![q] = o]
  /\ UNCHANGED <<isProcessing, quizActive, quizQuestions, requests>>
  /\ UNCHANGED <<isListening, heardProcessing, sendTimer>>
  /\ UNCHANGED <<navVars, readerVars>>

\* The close button of the quiz panel: setQuizActive(false).
closeQuiz ==
  /\ navStep = "VIEWING"
  /\ quizActive' = FALSE
  /\ UNCHANGED <<isProcessing, quizQuestions, quizAnswers, requests>>
  /\ UNCHANGED <<isListening, heardProcessing, sendTimer>>
  /\ UNCHANGED <<navVars, readerVars>>

\* handleAskTaytuButton with no text typed: toggleListening() starts the
\* recognition, and recognition.onstart runs.  The button is disabled while
\* isProcessing.
startListening ==
  /\ ~isProcessing
  /\ ~isListening
  /\ isListening' = TRUE
  /\ UNCHANGED <<isProcessing, quizActive, quizQuestions, quizAnswers, requests>>
  /\ UNCHANGED <<heardProcessing, sendTimer>>
  /\ UNCHANGED <<navVars, readerVars>>

\* recognition.onend or recognition.onerror, after recognition.stop() or on
\* the recognition's own account.
recognitionEnded ==
  /\ isListening
  /\ isListening' = FALSE
  /\ UNCHANGED <<isProcessing, quizActive, quizQuestions, quizAnswers, requests>>
  /\ UNCHANGED <<heardProcessing, sendTimer>>
  /\ UNCHANGED <<navVars, readerVars>>

\* recognition.onresult: setIsListening(false) and setTimeout(() =>
\* sendMessage(transcript), 500).  One timer is pending at a time.
recognitionResult ==
  /\ isListening
  /\ ~sendTimer
  /\ isListening' = FALSE
  /\ sendTimer' = TRUE
  /\ UNCHANGED <<isProcessing, quizActive, quizQuestions, quizAnswers, requests>>
  /\ UNCHANGED heardProcessing
  /\ UNCHANGED <<navVars, readerVars>>

\* The timer of recognition.onresult fires: sendMessage(transcript), the
\* sendMessage of the render that created the recognition object.
sendTimerFires ==
  /\ sendTimer
  /\ sendTimer' = FALSE
  /\ processAIResponse(heardProcessing, TRUE)
  /\ UNCHANGED <<isListening, heardProcessing>>
  /\ UNCHANGED <<navVars, readerVars>>

\* toggleLanguage: the effect that depends on language runs again and creates
\* a new recognition object, whose handlers are those of this render.  Taken
\* while the old object has nothing under way.
toggleLanguage ==
  /\ ~isListening
  /\ ~sendTimer
  /\ heardProcessing' = isProcessing
  /\ UNCHANGED <<isProcessing, quizActive, quizQuestions, quizAnswers, requests>>
  /\ UNCHANGED <<isListening, sendTimer>>
  /\ UNCHANGED <<navVars, readerVars>>

pipelineVars == <<storeVars, pendingPuts, rejectedPuts, callVars>>

\* A study session: the student is reading a document and uses the assistant,
\* the quiz and the navigation buttons.
StudyNext ==
  \/ sendMessage /\ UNCHANGED pipelineVars
  \/ handleExplain /\ UNCHANGED pipelineVars
  \/ \E b \in BOOLEAN : explanationResolved(b) /\ UNCHANGED pipelineVars
  \/ \E b \in BOOLEAN : explanationRejected(b) /\ UNCHANGED pipelineVars
  \/ speechSettled /\ UNCHANGED pipelineVars
  \/ handleQuiz /\ UNCHANGED pipelineVars
  \/ \E n \in 0..MaxQuestions : quizResolved(n) /\ UNCHANGED pipelineVars
  \/ quizRejected /\ UNCHANGED pipelineVars
  \/ \E q \in 1..MaxQuestions, o \in 0..1 : submitQuizAnswer(q, o) /\ UNCHANGED pipelineVars
  \/ closeQuiz /\ UNCHANGED pipelineVars
  \/ startListening /\ UNCHANGED pipelineVars
  \/ recognitionEnded /\ UNCHANGED pipelineVars
  \/ recognitionResult /\ UNCHANGED pipelineVars
  \/ sendTimerFires /\ UNCHANGED pipelineVars
  \/ toggleLanguage /\ UNCHANGED pipelineVars
  \/ \E g \in Grades : selectGrade(g)
  \/ \E n \in BlobSizes : handleFileUpload(n)
  \/ goBack
  \/ resetToGradeSelect

\* The session starts with the physics textbook of grade 11 on the screen,
\* acquired from the network by the last call of selectSubject the model
\* follows, in a browser without Cache Storage; the assistant has not been
\* used yet.
StudyInit ==
  /\ PipelineInit
  /\ ~cachesInWindow
  /\ navStep = "VIEWING"
  /\ selectedGrade = "11"
  /\ selectedSubject = "phy11"
  /\ file = [origin |-> "requested", size |-> MinPdfSize]
  /\ isLoadingPdf = FALSE
  /\ isFallbackMode = FALSE
  /\ load = "loaded"
  /\ loads = MaxLoads
  /\ isProcessing = FALSE
  /\ quizActive = FALSE
  /\ quizQuestions = <<>>
  /\ quizAnswers = <<>>
  /\ requests = [k \in AiKinds |-> 0]
  /\ isListening = FALSE
  /\ heardProcessing = FALSE
  /\ sendTimer = FALSE
  /\ ReaderInit

StudySpec == StudyInit /\ [][StudyNext]_vars

StudyTypeOK ==
  /\ isProcessing \in BOOLEAN
  /\ quizActive \in BOOLEAN
  /\ Len(quizQuestions) <= MaxQuestions
  /\ requests \in [AiKinds -> 0..MaxRequests]
  /\ RequestsInFlight <= MaxRequests
  /\ isListening \in BOOLEAN
  /\ heardProcessing \in BOOLEAN
  /\ sendTimer \in BOOLEAN

\* ------------------------------------------------------------- the PDFReader
\* The component App renders in the viewer, with the props App passes: file,
\* a document of filePages pages, and startPage, selectedSubject?.startPage or
\* its default 1.  The effect on [file, startPage] runs in the step that
\* changes the props.  A document that <Document> fails to load calls nothing.

\* subject.startPage of CURRICULUM, = 1 by the default of the prop.
startPageOf(s) == IF s = "phy11" THEN 7 ELSE 1

Max(a, b) == IF a >= b THEN a ELSE b
Min(a, b) == IF a <= b THEN a ELSE b

\* App shows the viewer: PDFReader is mounted with the document acquired for
\* subject s; useState(0), useState(startPage).
PDFReaderMount(s, n) ==
  /\ ~mounted
  /\ mounted' = TRUE
  /\ startPage' = startPageOf(s)
  /\ filePages' = n
  /\ documentLoaded' = FALSE
  /\ numPages' = 0
  /\ pageNumber' = startPageOf(s)

\* App leaves the viewer (goBack, resetToGradeSelect): the component and its
\* state are discarded.
PDFReaderUnmount ==
  /\ mounted
  /\ mounted' = FALSE
  /\ startPage' = 1
  /\ filePages' = 0
  /\ documentLoaded' = FALSE
  /\ numPages' = 0
  /\ pageNumber' = 1

\* handleFileUpload in the viewer: file is the uploaded document of n pages and
\* selectedSubject is null, so startPage is 1; the effect then runs
\* setPageNumber(startPage).
PDFReaderFileChanged(n) ==
  /\ mounted
  /\ filePages' = n
  /\ startPage' = 1
  /\ documentLoaded' = FALSE
  /\ pageNumber' = 1
  /\ UNCHANGED <<mounted, numPages>>

\* function onDocumentLoadSuccess({ numPages }) { setNumPages(numPages); }
onDocumentLoadSuccess ==
  /\ mounted
  /\ ~documentLoaded
  /\ documentLoaded' = TRUE
  /\ numPages' = filePages
  /\ UNCHANGED <<mounted, startPage, filePages, pageNumber>>

\* The previous button: setPageNumber(prev => Math.max(prev - 1, startPage)),
\* disabled={pageNumber <= startPage}.
previousPage ==
  /\ mounted
  /\ ~(pageNumber <= startPage)
  /\ pageNumber' = Max(pageNumber - 1, startPage)
  /\ UNCHANGED <<mounted, startPage, filePages, documentLoaded, numPages>>

\* The next button: setPageNumber(prev => Math.min(prev + 1, numPages)),
\* disabled={pageNumber >= numPages}.
nextPage ==
  /\ mounted
  /\ ~(pageNumber >= numPages)
  /\ pageNumber' = Min(pageNumber + 1, numPages)
  /\ UNCHANGED <<mounted, startPage, filePages, documentLoaded, numPages>>

\* The viewer on its own; documents have 1 to MaxPages pages.
ReaderNext ==
  \/ \E s \in subjects("11") \cup subjects("12"), n \in 1..MaxPages :
       PDFReaderMount(s, n) /\ UNCHANGED <<pipelineVars, navVars, quizActive, aiVars>>
  \/ PDFReaderUnmount /\ UNCHANGED <<pipelineVars, navVars, quizActive, aiVars>>
  \/ \E n \in 1..MaxPages :
       PDFReaderFileChanged(n) /\ UNCHANGED <<pipelineVars, navVars, quizActive, aiVars>>
  \/ onDocumentLoadSuccess /\ UNCHANGED <<pipelineVars, navVars, quizActive, aiVars>>
  \/ previousPage /\ UNCHANGED <<pipelineVars, navVars, quizActive, aiVars>>
  \/ nextPage /\ UNCHANGED <<pipelineVars, navVars, quizActive, aiVars>>

\* The application as it opens, in a browser without Cache Storage.
ReaderStart == InitEmpty /\ ~cachesInWindow

ReaderSpec == ReaderStart /\ [][ReaderNext]_vars

ReaderTypeOK ==
  /\ mounted \in BOOLEAN
  /\ startPage \in {1, 7}
  /\ filePages \in 0..MaxPages
  /\ documentLoaded \in BOOLEAN
  /\ numPages \in 0..MaxPages
  /\ pageNumber \in 1..Max(MaxPages, 7)

\* ------------------------------------------------------------------ claims

\* An invocation that has been started.
Started(i) == pc[i] # "idle"
\* An invocation that returned a payload it fetched from the network.
ReturnedFetched(i) == pc[i] = "returned" /\ lookup[i] # "hit"
\* The requests the strategy "Direct -> AllOrigins -> CorsProxy" makes for u.
ExpectedRequests(u) ==
  <<u, <<"https://api.allorigins.win/raw?url=">> \o u, <<"https://corsproxy.io/?">> \o u>>
IsPrefix(s, t) == Len(s) <= Len(t) /\ \A n \in 1..Len(s) : s[n] = t[n]
\* The response passes fetchAndCache's checks as the specification states them.
Validated(r) == r.kind = "ok" /\ r.size >= 5000

\* C1 as stated: every invocation for a URL that has a cache entry when the
\* invocation starts returns that entry's payload, makes no network request
\* and writes nothing to the cache.
C1_EntryAtStartShortCircuits ==
  \A i \in Calls :
    (Started(i) /\ atStart[i] # NoEntry) =>
      /\ log[i] = <<>>
      /\ puts[i] = {}
      /\ pc[i] # "failed"
      /\ (pc[i] = "returned" => result[i] = atStart[i])

\* C1 (amended): when the cache lookup of an invocation for U succeeds and
\* finds an entry (cache.match resolves with a response), the invocation has
\* made and makes no network request, applies no size validation, neither
\* starts a cache write nor changes the cache, and the only payload it can
\* return is the one the entry held at the lookup, whatever its size.
C1_CacheHitShortCircuits ==
  /\ [][\A i \in Calls :
          /\ (pc[i] = "cacheMatch" /\ pc'[i] # "cacheMatch" /\ lookup'[i] # "error"
                /\ cache[url[i]] # NoEntry) =>
               /\ lookup'[i] = "hit"
               /\ blob'[i] = cache[url[i]]
               /\ log'[i] = <<>>
               /\ puts'[i] = {}
               /\ cache' = cache
               /\ pendingPuts' = pendingPuts
          /\ (lookup[i] = "hit" => blob'[i] = blob[i] /\ lookup'[i] = "hit")]_vars
  /\ [](\A i \in Calls :
          lookup[i] = "hit" =>
            /\ pc[i] \in {"cacheBody", "returned", "failed"}
            /\ (pc[i] = "returned" => result[i] = blob[i])
            /\ log[i] = <<>>
            /\ puts[i] = {}
            /\ \A p \in pendingPuts : p.by # i)

\* C1 witness: an invocation was served from the cache with an entry smaller
\* than the validation threshold.
C1_Witness ==
  \E i \in Calls :
    /\ lookup[i] = "hit"
    /\ pc[i] = "returned"
    /\ result[i] < 5000
    /\ result[i] = atStart[i]
    /\ cache = cache0

\* C2: every key of the cache is a canonical URL, never a proxy-transformed
\* one, and every key that was not in the cache before the first invocation
\* is the argument of an invocation; the same holds of the writes in flight.
C2_CacheKeysCanonical ==
  /\ \A k \in AllUrls :
       cache[k] # NoEntry =>
         /\ k \in CURRICULUM
         /\ k \notin ProxyUrls
         /\ (cache0[k] # NoEntry \/ \E i \in Calls : Started(i) /\ url[i] = k)
  /\ \A p \in pendingPuts : p.key = url[p.by] /\ p.key \notin ProxyUrls
  /\ \A i \in Calls : \A w \in puts[i] : w[1] = url[i]

\* C2 witness: a payload obtained through a proxy is in the cache under the
\* canonical URL, which had no entry before.
C2_Witness ==
  \E i \in Calls :
    /\ ReturnedFetched(i)
    /\ attempt[i] >= 1
    /\ cache0[url[i]] = NoEntry
    /\ cache[url[i]] = result[i]
    /\ <<url[i], result[i]>> \in puts[i]

\* C3: after a cache miss and a failed direct fetch the proxies are requested
\* in list order, AllOrigins then corsproxy.io; a proxy is requested only when
\* the request before it failed; the invocation returns the body of the first
\* validated response and requests nothing after it.
C3_OrderedProxyFallback ==
  /\ [](\A i \in Calls :
          /\ IsPrefix(log[i], ExpectedRequests(url[i]))
          /\ (pc[i] = "fetch" /\ Len(log[i]) >= 2 => ~Validated(lastResp[i]))
          /\ (ReturnedFetched(i) =>
                /\ Validated(lastResp[i])
                /\ result[i] = lastResp[i].size
                /\ Len(log[i]) = attempt[i] + 1)
          /\ (pc[i] = "failed" /\ lookup[i] # "hit" =>
                log[i] = ExpectedRequests(url[i])))
  /\ [][\A i \in Calls :
          /\ (pc[i] \in {"putOpen", "returned", "failed"} => log'[i] = log[i])
          /\ (Len(log'[i]) > Len(log[i]) /\ Len(log[i]) >= 1 =>
                /\ pc[i] = "fetch"
                /\ ~Validated(lastResp'[i])
                /\ log'[i] = Append(log[i], ExpectedRequests(url[i])[Len(log[i]) + 1]))]_vars

\* C3 witness: the direct fetch and AllOrigins failed, corsproxy.io answered,
\* and its body is what the invocation returned.
C3_Witness ==
  \E i \in Calls :
    /\ ReturnedFetched(i)
    /\ log[i] = ExpectedRequests(url[i])
    /\ result[i] = lastResp[i].size

\* C4: on a cache miss the first network request is the direct request for
\* U; the first proxy request is made only in the step in which the direct
\* request fails (rejected, non-success status or undersized body); when the
\* direct response validates no proxy is ever requested.
C4_DirectBeforeProxies ==
  /\ [](\A i \in Calls :
          /\ (log[i] # <<>> => log[i][1] = url[i])
          /\ (\A n \in 1..Len(log[i]) : log[i][n] \in ProxyUrls => n >= 2)
          /\ (lookup[i] \in {"miss", "error", "skipped"} => log[i] # <<>>)
          /\ (ReturnedFetched(i) /\ attempt[i] = 0 => log[i] = <<url[i]>>))
  /\ [][\A i \in Calls :
          /\ (Len(log[i]) = 0 /\ Len(log'[i]) > 0 => log'[i] = <<url'[i]>>)
          /\ (Len(log[i]) = 1 /\ Len(log'[i]) > 1 =>
                /\ pc[i] = "fetch" /\ attempt[i] = 0
                /\ ~Validated(lastResp'[i])
                /\ lastResp'[i].kind \in {"rejected", "notOk", "ok"})
          /\ (pc[i] = "fetch" /\ attempt[i] = 0 /\ pc'[i] # "fetch"
                /\ Validated(lastResp'[i]) => pc'[i] \in {"putOpen", "returned"})
          /\ (pc[i] \in {"putOpen", "returned"} => log'[i] = log[i])]_vars

\* C4 witness: the direct response validated and the invocation returned
\* having requested nothing but U.
C4_Witness ==
  \E i \in Calls :
    /\ ReturnedFetched(i)
    /\ lookup[i] = "miss"
    /\ log[i] = <<url[i]>>

\* The request of invocation i settles in this step.
Settles(i) == pc[i] = "fetch" /\ (pc'[i] # "fetch" \/ attempt'[i] # attempt[i])

\* C5: in every attempt, direct or proxy, a response with success status and
\* a body under 5000 bytes is handled as a failed request: nothing is
\* returned, nothing is cached, and the next strategy follows (the next
\* request, or the terminal failure after the last proxy); a body of 5000
\* bytes or more is accepted.  No undersized fetched body is ever returned or
\* passed to the cache.
C5_ValidationRejection ==
  /\ [][\A i \in Calls :
          (Settles(i) /\ lastResp'[i].kind = "ok") =>
            IF lastResp'[i].size < 5000
              THEN /\ result'[i] = NoEntry /\ blob'[i] = blob[i]
                   /\ puts' = puts /\ pendingPuts' = pendingPuts /\ cache' = cache
                   /\ IF Len(log[i]) < 3
                        THEN /\ pc'[i] = "fetch"
                             /\ log'[i] = Append(log[i], ExpectedRequests(url[i])[Len(log[i]) + 1])
                        ELSE pc'[i] = "failed" /\ log'[i] = log[i]
              ELSE /\ pc'[i] \in {"putOpen", "returned"}
                   /\ blob'[i] = lastResp'[i].size
                   /\ log'[i] = log[i]]_vars
  /\ [](\A i \in Calls :
          /\ (ReturnedFetched(i) => result[i] >= 5000)
          /\ (\A w \in puts[i] : w[2] >= 5000)
          /\ (pc[i] = "putOpen" => blob[i] >= 5000))

\* C5 witness: a proxy answered with success status and 4999 bytes, and the
\* invocation went on to the next proxy with nothing returned or cached.
C5_Witness ==
  \E i \in Calls :
    /\ pc[i] = "fetch" /\ attempt[i] = 2
    /\ lastResp[i] = [kind |-> "ok", size |-> 4999]
    /\ result[i] = NoEntry /\ puts[i] = {}

\* C6: when the last proxy's request fails too, the invocation ends with the
\* terminal error in that step; a failed invocation has returned nothing and
\* has neither started nor tried to start a cache write, and when no other
\* invocation has run the cache is what it was before the call.
C6_TotalExhaustion ==
  /\ [][\A i \in Calls :
          (Settles(i) /\ Len(log[i]) = 3 /\ ~Validated(lastResp'[i])) =>
            /\ pc'[i] = "failed"
            /\ result'[i] = NoEntry
            /\ cache' = cache /\ pendingPuts' = pendingPuts /\ puts' = puts]_vars
  /\ [](\A i \in Calls :
          pc[i] = "failed" =>
            /\ result[i] = NoEntry
            /\ puts[i] = {} /\ ~putOpenFailed[i] /\ i \notin rejectedPuts
            /\ (\A p \in pendingPuts : p.by # i)
            /\ ((\A j \in Calls \ {i} : pc[j] = "idle") => cache = cache0))

\* C6 witness: the lookup missed, all three requests failed, the last one on
\* validation, and the invocation failed.
C6_Witness ==
  \E i \in Calls :
    /\ pc[i] = "failed" /\ lookup[i] = "miss"
    /\ lastResp[i] = [kind |-> "ok", size |-> 4999]
    /\ cache = cache0

\* C7: an invocation fails only in the step in which the request to the last
\* proxy fails, after a lookup that produced no payload and after the direct
\* request and both proxy requests were made; a failing lookup leads to the
\* direct request and a failing request before the last one leads to the next
\* request, never to the end of the invocation.
C7_FailsOnlyOnExhaustion ==
  /\ [](\A i \in Calls :
          pc[i] = "failed" =>
            /\ lookup[i] \in {"miss", "error", "skipped"}
            /\ log[i] = ExpectedRequests(url[i])
            /\ ~Validated(lastResp[i])
            /\ result[i] = NoEntry)
  /\ [][\A i \in Calls :
          /\ (pc[i] # "failed" /\ pc'[i] = "failed" =>
                Settles(i) /\ Len(log[i]) = 3 /\ ~Validated(lastResp'[i]))
          /\ (lookup[i] # "error" /\ lookup'[i] = "error" =>
                pc'[i] = "fetch" /\ log'[i] = <<url[i]>>)
          /\ (Settles(i) /\ Len(log[i]) < 3 /\ ~Validated(lastResp'[i]) =>
                pc'[i] = "fetch" /\ Len(log'[i]) = Len(log[i]) + 1)
          /\ (Len(log'[i]) > Len(log[i]) /\ Len(log[i]) >= 1 =>
                ~Validated(lastResp'[i]))]_vars

\* C8: whenever an invocation returns a payload it fetched, the payload is in
\* the cache under U at the moment of the return.  Stated for the returns
\* whose cache write was started (cache.put was called); a write that could
\* not be started is C10's case.
C8_StoredBeforeReturn ==
  \A i \in Calls :
    (ReturnedFetched(i) /\ puts[i] # {}) => storedAtReturn[i]

\* C9: after an invocation for U has returned a payload it fetched, the next
\* invocation for U is a cache hit: it makes no network request and returns
\* the same payload.  Stated for a working cache: the first invocation's
\* lookup missed, its cache.put was called and did not reject, and the next
\* invocation's lookup did not fail.
C9_FetchThenHit ==
  \A j \in Calls : \A i \in returnedBefore[j] :
    (/\ lookup[i] = "miss" /\ puts[i] # {} /\ i \notin rejectedPuts
     /\ lookup[j] \notin {"none", "error"}) =>
      /\ lookup[j] = "hit"
      /\ log[j] = <<>>
      /\ (pc[j] = "returned" => result[j] = result[i])

\* C10: when a fetched payload validates and persisting it fails, because
\* caches.open rejects inside fetchAndCache or because cache.put rejects, the
\* invocation has returned that payload: it has not failed and has made no
\* request after the one that validated.
C10_CacheWriteFailureNonFatal ==
  \A i \in Calls :
    (putOpenFailed[i] \/ i \in rejectedPuts) =>
      /\ pc[i] = "returned"
      /\ Validated(lastResp[i])
      /\ result[i] = lastResp[i].size
      /\ Len(log[i]) = attempt[i] + 1
      /\ log[i][Len(log[i])] = ExpectedRequests(url[i])[attempt[i] + 1]

\* C10 witness: one invocation could not open the cache for writing, another
\* one's cache.put rejected, both returned what they fetched and the cache
\* has no entry for either.
C10_Witness ==
  \E i, j \in Calls :
    /\ putOpenFailed[i] /\ pc[i] = "returned" /\ result[i] >= 5000
    /\ j \in rejectedPuts /\ pc[j] = "returned"
    /\ cache[url[i]] = NoEntry /\ cache[url[j]] = NoEntry

\* C11: a cache that is absent, cannot be opened or cannot be queried is a
\* miss: the invocation goes on to the direct request for U in that very step
\* and does not fail for that reason; and no error of the cache ever reaches
\* the caller: an invocation fails only with the failure of a network request.
C11_CacheUnavailableIsMiss ==
  /\ [](\A i \in Calls :
          /\ (lookup[i] \in {"skipped", "error"} => log[i] # <<>> /\ log[i][1] = url[i])
          /\ (pc[i] = "failed" => settled[i] >= 1 /\ ~Validated(lastResp[i])))
  /\ [][\A i \in Calls :
          (lookup[i] = "none" /\ lookup'[i] \in {"skipped", "error", "miss"}) =>
            /\ pc'[i] = "fetch"
            /\ log'[i] = <<url'[i]>>
            /\ cache' = cache]_vars

\* Invocation i of fetchPdfWithCache ended with every strategy failed.
Exhausted(i) ==
  pc[i] = "failed" /\ log[i] = ExpectedRequests(url[i]) /\ ~Validated(lastResp[i])

\* C12: when the acquisition of the requested subject's URL has failed and the
\* acquisition of SAMPLE_PDF_URL succeeds, the step selectSubject takes then
\* sets file from the default document's payload, navStep to VIEWING and
\* isFallbackMode to true; the default URL is acquired only after the
\* requested one failed.
C12_DefaultDocumentSubstitution ==
  /\ [][(load = "fallback" /\ pc[2] = "returned" /\ load' # load) =>
          /\ load' = "substituted"
          /\ file' = [origin |-> "default", size |-> result[2]]
          /\ navStep' = "VIEWING"
          /\ isFallbackMode' = TRUE
          /\ isLoadingPdf' = FALSE]_vars
  /\ [](load = "fallback" =>
          /\ pc[1] = "failed"
          /\ pc[2] # "idle" /\ url[2] = <<"sample.pdf">>)
  /\ [](load = "substituted" /\ navStep = "VIEWING" /\ file.origin = "default" =>
          isFallbackMode)

\* C12 witness: physics of grade 11 was selected, its acquisition failed, the
\* default document was acquired and is shown with the flag set.
C12_Witness ==
  /\ load = "substituted"
  /\ selectedSubject = "phy11"
  /\ navStep = "VIEWING"
  /\ file.origin = "default" /\ file.size >= 5000
  /\ isFallbackMode
  /\ ~isLoadingPdf

\* C13: whenever navStep is VIEWING, isFallbackMode is true exactly when the
\* file shown was made by the substitution branch of selectSubject; it is
\* false for a file made from the requested document and for an uploaded one.
C13_FallbackFlagAccurate ==
  navStep = "VIEWING" =>
    /\ file # NoFile
    /\ (isFallbackMode <=> file.origin = "default")
    /\ (file.origin \in {"requested", "upload"} => ~isFallbackMode)

\* C13 witness: the default document had been substituted, then a custom file
\* was uploaded: it is shown with the flag cleared.
C13_Witness ==
  /\ navStep = "VIEWING"
  /\ load = "substituted"
  /\ file.origin = "upload"
  /\ ~isFallbackMode

\* C14: selectSubject shows the alert only when the acquisition of the
\* requested URL was exhausted and the acquisition of the default URL was
\* exhausted too; the failure of the first acquisition alone leads to the
\* acquisition of the default document, never to the alert; and the call that
\* ends with the alert changes neither navStep nor file and leaves
\* isFallbackMode false.
C14_TwoTierErrorReporting ==
  /\ [][(load # "alerted" /\ load' = "alerted") =>
          /\ load = "fallback"
          /\ Exhausted(1) /\ Exhausted(2)
          /\ navStep' = navStep
          /\ file' = file
          /\ isFallbackMode' = FALSE]_vars
  /\ [][(load = "primary" /\ load' # "primary") =>
          load' \in {"loaded", "fallback"}]_vars
  /\ [][(load \in {"primary", "fallback"} /\ load' \in {"primary", "fallback", "alerted"}
           /\ isFallbackMode' # isFallbackMode) => FALSE]_vars

\* The number of fetch() requests of invocation i that have not settled.
InFlight(i) == Len(log[i]) - settled[i]

\* C15: an invocation has at most one attempt in flight: while its cache
\* lookup is pending it has made no request, it never has two requests
\* unsettled, and it makes a request only in a step that leaves every earlier
\* request of it settled and its lookup finished.
C15_SequentialAttempts ==
  /\ [](\A i \in Calls :
          /\ InFlight(i) \in {0, 1}
          /\ (pc[i] \in {"cacheOpen", "cacheMatch", "cacheBody"} => log[i] = <<>>)
          /\ (InFlight(i) = 1 <=> pc[i] = "fetch")
          /\ (lookup[i] = "none" => log[i] = <<>>))
  /\ [][\A i \in Calls :
          Len(log'[i]) > Len(log[i]) =>
            /\ Len(log'[i]) = Len(log[i]) + 1
            /\ settled'[i] = Len(log[i])
            /\ lookup'[i] \in {"skipped", "error", "miss"}]_vars

\* C15 witness: the request to the second proxy is in flight, alone: the
\* direct request and the one to the first proxy have settled.
C15_Witness ==
  \E i \in Calls :
    /\ pc[i] = "fetch" /\ attempt[i] = 2
    /\ Len(log[i]) = 3 /\ settled[i] = 2
    /\ lookup[i] = "miss"

\* A step of invocation i other than its start: one of the promises it awaits
\* settles.
Settle(i) ==
  \/ LookupOpened(i) \/ LookupFailed(i) \/ LookupMatched(i)
  \/ CachedBodyRead(i) \/ CachedBodyReadFailed(i)
  \/ \E r \in Responses : FetchSettled(i, r)
  \/ PutOpened(i) \/ PutOpenFailed(i)

\* The pipeline with every awaited promise settling eventually, one way or
\* the other.
FairSpec == Spec /\ \A i \in Calls : WF_vars(Settle(i) /\ UNCHANGED appVars)

\* C16: with every attempt settling eventually, every invocation that was
\* started ends, with a payload or with the terminal failure and never both;
\* once ended it stays as it ended; it has made at most three requests, no URL
\* twice; and no step takes back an invocation that is under way.
C16_RunsToCompletion ==
  /\ \A i \in Calls : (pc[i] # "idle") ~> (pc[i] \in {"returned", "failed"})
  /\ [](\A i \in Calls :
          /\ Len(log[i]) <= 3
          /\ \A m, n \in 1..Len(log[i]) : log[i][m] = log[i][n] => m = n
          /\ (pc[i] = "returned" => result[i] # NoEntry)
          /\ (pc[i] # "returned" => result[i] = NoEntry))
  /\ [][\A i \in Calls :
          /\ (pc[i] \in {"returned", "failed"} =>
                pc'[i] = pc[i] /\ result'[i] = result[i] /\ log'[i] = log[i])
          /\ (pc[i] # "idle" => pc'[i] # "idle" /\ url'[i] = url[i])]_vars

\* C16 witness: one invocation ended with the terminal failure after three
\* requests, the other one with the payload of its third request.
C16_Witness ==
  \E i, j \in Calls :
    /\ pc[i] = "failed" /\ settled[i] = 3
    /\ pc[j] = "returned" /\ settled[j] = 3 /\ result[j] = lastResp[j].size

\* The write that lands or is given up in this step, if any.
LandedPut(p) == p \in pendingPuts /\ p \notin pendingPuts' /\ rejectedPuts' = rejectedPuts

\* C17: invocations are not coordinated.  An invocation whose lookup finds
\* no entry under U misses and makes its own direct request, whatever the
\* other invocation is doing for U; each stores what it fetched under the key
\* U; and a write that lands replaces the entry under U whatever it held, so
\* the entry left is the payload of the write that landed last.
C17_NoSingleFlight ==
  /\ [][\A i \in Calls :
          (pc[i] = "cacheMatch" /\ pc'[i] # "cacheMatch" /\ lookup'[i] # "error"
             /\ cache[url[i]] = NoEntry) =>
            /\ lookup'[i] = "miss"
            /\ pc'[i] = "fetch"
            /\ log'[i] = <<url[i]>>]_vars
  /\ [](\A i \in Calls :
          (ReturnedFetched(i) /\ ~putOpenFailed[i] /\ cachesInWindow) =>
            puts[i] = {<<url[i], result[i]>>})
  /\ [][\A p \in pendingPuts :
          LandedPut(p) => cache' = [cache EXCEPT ![p.key] = p.blob]]_vars
  /\ [][\A k \in AllUrls :
          cache'[k] # cache[k] =>
            \E p \in pendingPuts : LandedPut(p) /\ p.key = k /\ p.blob = cache'[k]]_vars

\* C17 witness: two invocations for the same URL, which had no entry when
\* either started, both missed, each made its own request and got a different
\* payload, both writes landed, and the entry is the payload of invocation 1:
\* its write landed last and replaced the other one.
C17_Witness ==
  /\ url[1] = url[2]
  /\ lookup[1] = "miss" /\ lookup[2] = "miss"
  /\ atStart[1] = NoEntry /\ atStart[2] = NoEntry
  /\ log[1] # <<>> /\ log[2] # <<>>
  /\ pc[1] = "returned" /\ pc[2] = "returned"
  /\ result[1] # result[2]
  /\ puts[1] = {<<url[1], result[1]>>} /\ puts[2] = {<<url[2], result[2]>>}
  /\ pendingPuts = {} /\ rejectedPuts = {}
  /\ cache[url[1]] = result[1]

\* C18 as stated: no step removes a cache entry, and every invocation for a
\* URL that has an entry when the invocation starts is served from the cache:
\* it makes no network request and, when it returns, returns a cached
\* payload.
C18_EntryKeptAndAlwaysServed ==
  /\ [][\A k \in AllUrls : cache[k] # NoEntry => cache'[k] # NoEntry]_vars
  /\ [](\A i \in Calls :
          (Started(i) /\ atStart[i] # NoEntry) =>
            /\ lookup[i] \in {"none", "hit"}
            /\ log[i] = <<>>)

\* C18 (amended): no step of the pipeline removes a cache entry: once U has
\* an entry it has one in every later state, its payload changing only when a
\* cache.put for U lands; and every later invocation for U whose lookup
\* succeeds is a hit, makes no network request and starts no cache write.
C18_EntriesNeverInvalidated ==
  /\ [][\A k \in AllUrls :
          /\ (cache[k] # NoEntry => cache'[k] # NoEntry)
          /\ (cache[k] # NoEntry /\ cache'[k] # cache[k] =>
                \E p \in pendingPuts : p.key = k /\ p.blob = cache'[k] /\ p \notin pendingPuts')]_vars
  /\ [](\A i \in Calls :
          (Started(i) /\ atStart[i] # NoEntry) =>
            /\ cache[url[i]] # NoEntry
            /\ (lookup[i] \in {"hit", "miss"} =>
                  lookup[i] = "hit" /\ log[i] = <<>> /\ puts[i] = {}))

\* C18 witness: an invocation fetched and stored U, a later invocation for U
\* found the entry and returned it without a request, and the entry is still
\* there.
C18_Witness ==
  \E i, j \in Calls :
    /\ ReturnedFetched(i) /\ puts[i] # {}
    /\ cache0[url[i]] = NoEntry
    /\ url[j] = url[i] /\ atStart[j] = result[i]
    /\ lookup[j] = "hit" /\ pc[j] = "returned" /\ result[j] = result[i] /\ log[j] = <<>>
    /\ cache[url[i]] = result[i]

\* The cache.put calls of invocation i that have not settled.
PendingOf(i) == {p \in pendingPuts : p.by = i}

\* C19: an invocation calls cache.put at most once, in the step in which it
\* returns, under the key U and with the payload it returns, which is the
\* body of the response that validated; a request that fails changes neither
\* the cache nor the writes in flight, whatever follows it; and an entry
\* changes only under the URL of an invocation, to a payload that invocation
\* stored.
C19_OneCacheWrite ==
  /\ [](\A i \in Calls :
          /\ Cardinality(puts[i]) <= 1
          /\ (puts[i] # {} =>
                /\ pc[i] = "returned"
                /\ puts[i] = {<<url[i], result[i]>>}
                /\ Validated(lastResp[i]) /\ result[i] = lastResp[i].size)
          /\ (\A p \in PendingOf(i) : <<p.key, p.blob>> \in puts[i])
          /\ (\A q \in AllUrls \ {url[i]} : \A w \in puts[i] : w[1] # q))
  /\ [][\A i \in Calls :
          /\ (Settles(i) /\ ~Validated(lastResp'[i]) =>
                cache' = cache /\ pendingPuts' = pendingPuts /\ puts' = puts)
          /\ (puts'[i] # puts[i] =>
                puts[i] = {} /\ pc[i] = "putOpen" /\ pc'[i] = "returned")]_vars
  /\ [][\A k \in AllUrls :
          cache'[k] # cache[k] =>
            \E i \in Calls : url[i] = k /\ puts[i] = {<<k, cache'[k]>>}]_vars

\* C19 witness: the direct request and the one to the first proxy failed, the
\* second proxy's body validated: the invocation made one write, of that body,
\* and the cache differs from the initial one under U only.
C19_Witness ==
  \E i \in Calls :
    /\ pc[i] = "returned" /\ settled[i] = 3
    /\ puts[i] = {<<url[i], result[i]>>}
    /\ cache[url[i]] = result[i] /\ cache0[url[i]] # result[i]
    /\ \A k \in AllUrls \ {url[i]} : cache[k] = cache0[k]

\* C20: starting from an empty cache, every payload an invocation has
\* returned, from the cache or from the network, every payload in the cache
\* and every payload on its way into the cache is at least 5000 bytes; an
\* invocation that has ended has returned such a payload or has failed with
\* none.
C20_NoEmptyOrPartialData ==
  /\ \A i \in Calls :
       /\ (pc[i] = "returned" => result[i] >= 5000)
       /\ (pc[i] # "returned" => result[i] = NoEntry)
       /\ (pc[i] = "cacheBody" => blob[i] >= 5000)
       /\ \A w \in puts[i] : w[2] >= 5000
  /\ \A k \in AllUrls : cache[k] # NoEntry => cache[k] >= 5000
  /\ \A p \in pendingPuts : p.blob >= 5000

\* C20 witness: on a cache that was empty, one invocation got exactly 5000
\* bytes from a proxy after a failed direct request, returned and stored them,
\* and the other one was served these 5000 bytes from the cache.
C20_Witness ==
  \E i, j \in Calls :
    /\ pc[j] = "returned" /\ lookup[j] = "miss" /\ settled[j] = 2
    /\ result[j] = 5000 /\ cache0[url[j]] = NoEntry
    /\ pc[i] = "returned" /\ lookup[i] = "hit" /\ url[i] = url[j]
    /\ result[i] = 5000 /\ cache[url[i]] = 5000

\* C21: on the subject-selection screen a grade is selected, whatever the
\* user did while a selectSubject acquisition was in flight:
\* navStep = 'SUBJECT_SELECT' implies selectedGrade is not null.
C21_SubjectScreenHasGrade ==
  navStep = "SUBJECT_SELECT" => selectedGrade # NoGrade

\* An invocation of fetchPdfWithCache that has been called and has not settled.
Acquiring(i) == pc[i] \notin {"idle", "returned", "failed"}

\* C22: at most one acquisition of selectSubject is in flight.  While an
\* invocation is in flight isLoadingPdf is true and the subject buttons are not
\* offered; a call of selectSubject begins only when no invocation of an
\* earlier call is left; the invocation for the default document exists only
\* once the primary one has failed.
C22_OneAcquisitionInFlight ==
  /\ [](\A i \in Calls : Acquiring(i) => isLoadingPdf /\ ~SubjectButtonsOffered)
  /\ [](Cardinality({i \in Calls : Acquiring(i)}) <= 1)
  /\ [](pc[2] # "idle" => pc[1] = "failed")
  /\ [][loads' = loads + 1 =>
          /\ ~isLoadingPdf
          /\ \A i \in Calls : pc[i] = "idle"
          /\ Cardinality({i \in Calls : Acquiring(i)'}) = 1]_vars

\* The second call of selectSubject has its default-document invocation in
\* flight, the user being on the subject screen, where the spinner is shown.
C22_Witness ==
  /\ loads = 2
  /\ Acquiring(2)
  /\ navStep = "SUBJECT_SELECT"
  /\ selectedGrade # NoGrade
  /\ isLoadingPdf

\* The application with every awaited promise settling eventually and every
\* continuation of selectSubject run once the promise it awaits has settled.
FairAppSpec ==
  /\ AppSpec
  /\ \A i \in Calls : WF_vars(Settle(i) /\ UNCHANGED appVars)
  /\ WF_vars(selectSubjectLoaded)
  /\ WF_vars(selectSubjectCatch)
  /\ WF_vars(selectSubjectFallbackLoaded)
  /\ WF_vars(selectSubjectFallbackFailed)

\* C23: isLoadingPdf is true exactly from the start of selectSubject to the end
\* of its acquisition work; with every attempt settling it is false again
\* eventually; and it becomes false in one of the three outcomes only: the
\* requested document acquired, the default document substituted, or both
\* acquisitions failed.
C23_LoadingFlagLifecycle ==
  /\ isLoadingPdf ~> ~isLoadingPdf
  /\ [](isLoadingPdf <=> load \in {"primary", "fallback"})
  /\ []((\E i \in Calls : Acquiring(i)) => isLoadingPdf)
  /\ [][(~isLoadingPdf /\ isLoadingPdf') => loads' = loads + 1]_vars
  /\ [][(isLoadingPdf /\ ~isLoadingPdf') =>
          \/ load' = "loaded" /\ pc[1] = "returned"
          \/ load' = "substituted" /\ pc[1] = "failed" /\ pc[2] = "returned"
          \/ load' = "alerted" /\ pc[1] = "failed" /\ pc[2] = "failed"]_vars

\* The second call of selectSubject has ended with both acquisitions failed,
\* and the spinner is off.
C23_Witness ==
  /\ loads = 2
  /\ load = "alerted"
  /\ ~isLoadingPdf

\* C24: the viewer always has a document: navStep = 'VIEWING' implies file is
\* not null, whatever the order of selectSubject's completions, handleFileUpload,
\* goBack and resetToGradeSelect.
C24_ViewerHasDocument ==
  navStep = "VIEWING" => file # NoFile /\ file \in Files

\* The viewer was opened by an acquisition that completed after the user had
\* left the subject screen with goBack or resetToGradeSelect.
C24_Witness ==
  /\ navStep = "VIEWING"
  /\ selectedGrade = NoGrade
  /\ file.origin = "requested"

\* The requests of generateExplanation and generateQuiz in flight.
AiRequests ==
  requests["explanation"] + requests["spokenExplanation"] + requests["quiz"]

\* C25: AI requests are mutually exclusive.  At most one request of
\* generateExplanation or generateQuiz is in flight; no step issues one while
\* isProcessing is true; and when the work of a call ends, by success or by
\* exception, isProcessing is false.
C25_AiRequestsExclusive ==
  /\ [](AiRequests <= 1)
  /\ [][isProcessing => AiRequests' <= AiRequests]_vars
  /\ [][RequestsInFlight' < RequestsInFlight => ~isProcessing']_vars

\* C26: page number bounds in PDFReader.  Whenever a document is loaded
\* (numPages > 0), startPage <= pageNumber <= numPages; the previous button
\* never moves below startPage and the next button never beyond numPages.
C26_PageNumberBounds ==
  /\ [](mounted /\ numPages > 0 => startPage <= pageNumber /\ pageNumber <= numPages)
  /\ [][previousPage => pageNumber' >= startPage /\ pageNumber' = pageNumber - 1]_vars
  /\ [][nextPage => pageNumber' <= numPages /\ pageNumber' = pageNumber + 1]_vars

\* C27: quiz answer consistency.  quizAnswers is as long as quizQuestions in
\* every state; when handleQuiz completes every answer is -1; a click on an
\* option of question q sets entry q to that option and changes no other
\* entry; and an entry that holds an option index keeps it in every step that
\* neither starts nor completes the generation of a quiz.
C27_QuizAnswersConsistent ==
  /\ [](Len(quizAnswers) = Len(quizQuestions))
  /\ [][(\E n \in 0..MaxQuestions : quizResolved(n)) =>
          \A k \in 1..Len(quizQuestions') : quizAnswers'[k] = -1]_vars
  /\ [][\A q \in 1..MaxQuestions, o \in 0..1 :
          submitQuizAnswer(q, o) =>
            /\ quizAnswers'[q] = o
            /\ Len(quizAnswers') = Len(quizAnswers)
            /\ \A k \in 1..Len(quizAnswers) :
                 k # q => quizAnswers'[k] = quizAnswers[k]]_vars
  /\ [][requests'["quiz"] = requests["quiz"] =>
          \A k \in 1..Len(quizAnswers) :
            quizAnswers[k] # -1 =>
              k <= Len(quizAnswers') /\ quizAnswers'[k] = quizAnswers[k]]_vars

\* A quiz of two questions is on the screen, the first one answered with
\* option 1, the second one not yet; another request is still in flight.
C27_Witness ==
  /\ quizActive
  /\ Len(quizQuestions) = 2
  /\ quizAnswers = <<1, -1>>
  /\ RequestsInFlight > 0

\* What goBack must leave alone in every case.
C28_Frame ==
  UNCHANGED <<selectedSubject, isLoadingPdf, isFallbackMode, load, loads,
              aiVars, readerVars, pipelineVars>>

\* C28: goBack moves exactly one navigation step and changes nothing else.
\* From VIEWING it goes to SUBJECT_SELECT, file becomes null and quizActive
\* false, selectedGrade and selectedSubject stay; from SUBJECT_SELECT it goes to
\* GRADE_SELECT and selectedGrade becomes null; the rest of the state stays.
C28_GoBackOneStep ==
  [][goBack =>
       /\ navStep = "VIEWING" =>
            /\ navStep' = "SUBJECT_SELECT"
            /\ file' = NoFile
            /\ quizActive' = FALSE
            /\ selectedGrade' = selectedGrade
       /\ navStep = "SUBJECT_SELECT" =>
            /\ navStep' = "GRADE_SELECT"
            /\ selectedGrade' = NoGrade
            /\ file' = file
            /\ quizActive' = quizActive
       /\ navStep = "GRADE_SELECT" =>
            UNCHANGED <<navStep, selectedGrade, file, quizActive>>
       /\ C28_Frame]_vars

\* goBack has left the viewer while a quiz was being generated: the subject
\* screen is shown, the grade and the subject are still selected, the document
\* and the quiz panel are gone, the request is still in flight.
C28_Witness ==
  /\ navStep = "SUBJECT_SELECT"
  /\ selectedGrade = "11"
  /\ selectedSubject = "phy11"
  /\ file = NoFile
  /\ ~quizActive
  /\ requests["quiz"] = 1
====
